---- MODULE Spec2Model ----
(***************************************************************************)
(* Operational Space Controller (irl_control/osc.py).                      *)
(*                                                                         *)
(* Numbers are exact rationals <<n, d>> (d > 0, lowest terms): the model   *)
(* follows the controller's arithmetic over the reals.  Index sequences    *)
(* are 1-based (Python's 0-based index i is i+1 here).                     *)
(***************************************************************************)
EXTENDS Integers, Sequences, FiniteSets, TLC

\* ------------------------------------------------------------------------
\* Exact arithmetic (numpy scalars)
\* ------------------------------------------------------------------------
IAbs(x) == IF x < 0 THEN -x ELSE x

RECURSIVE GCD(_, _)
GCD(a, b) == IF b = 0 THEN a ELSE GCD(b, a % b)

Rat(n, d) ==
    LET s == IF d < 0 THEN -1 ELSE 1
        g == GCD(IAbs(n), IAbs(d))
    IN  IF n = 0 THEN <<0, 1>> ELSE <<(s * n) \div g, (s * d) \div g>>

R(n) == <<n, 1>>
Zero == R(0)
One == R(1)

RAdd(a, b) ==
    LET g == GCD(a[2], b[2])
    IN  Rat(a[1] * (b[2] \div g) + b[1] * (a[2] \div g), (a[2] \div g) * b[2])
RNeg(a) == <<-a[1], a[2]>>
RSub(a, b) == RAdd(a, RNeg(b))
RMul(a, b) ==
    LET g1 == IF a[1] = 0 THEN 1 ELSE GCD(IAbs(a[1]), b[2])
        g2 == IF b[1] = 0 THEN 1 ELSE GCD(IAbs(b[1]), a[2])
    IN  Rat((a[1] \div g1) * (b[1] \div g2), (a[2] \div g2) * (b[2] \div g1))
RInv(a) == IF a[1] < 0 THEN <<-a[2], -a[1]>> ELSE <<a[2], a[1]>>
RDiv(a, b) == RMul(a, RInv(b))
RAbs(a) == <<IAbs(a[1]), a[2]>>
RLt(a, b) == a[1] * b[2] < b[1] * a[2]
RLe(a, b) == a[1] * b[2] <= b[1] * a[2]

ISqrt(n) == CHOOSE k \in 0..n : k * k = n
\* square root of a rational that is a perfect square
RSqrt(a) == <<ISqrt(a[1]), ISqrt(a[2])>>

\* ------------------------------------------------------------------------
\* Vectors and matrices (numpy arrays): sequences, and sequences of rows
\* ------------------------------------------------------------------------
\* a sequence given by its entries, evaluated once into an array
AsSeq(f) == f \o <<>>

RECURSIVE VSum(_)
VSum(v) == IF v = <<>> THEN Zero ELSE RAdd(Head(v), VSum(Tail(v)))

Zeros(n) == AsSeq([i \in 1..n |-> Zero])
VAdd(u, v) == AsSeq([i \in 1..Len(u) |-> RAdd(u[i], v[i])])
VSub(u, v) == AsSeq([i \in 1..Len(u) |-> RSub(u[i], v[i])])
VMul(u, v) == AsSeq([i \in 1..Len(u) |-> RMul(u[i], v[i])])
VScale(c, v) == AsSeq([i \in 1..Len(v) |-> RMul(c, v[i])])
Dot(u, v) == VSum(VMul(u, v))
\* a[idxs]
Take(v, idxs) == AsSeq([i \in 1..Len(idxs) |-> v[idxs[i]]])
\* np.linalg.norm
NormSq(v) == Dot(v, v)
Norm(v) == RSqrt(NormSq(v))

NCols(A) == IF A = <<>> THEN 0 ELSE Len(A[1])
Col(A, j) == AsSeq([i \in 1..Len(A) |-> A[i][j]])
Transpose(A) == AsSeq([j \in 1..NCols(A) |-> Col(A, j)])
MatVec(A, v) == AsSeq([i \in 1..Len(A) |-> Dot(A[i], v)])
MatMul(A, B) ==
    LET Bt == Transpose(B)
    IN  AsSeq([i \in 1..Len(A) |-> AsSeq([j \in 1..Len(Bt) |-> Dot(A[i], Bt[j])])])
MatScale(c, A) == AsSeq([i \in 1..Len(A) |-> VScale(c, A[i])])
Eye(n) == AsSeq([i \in 1..n |-> AsSeq([j \in 1..n |-> IF i = j THEN One ELSE Zero])])
MatSub(A, B) == AsSeq([i \in 1..Len(A) |-> VSub(A[i], B[i])])
ZeroMat(n) == AsSeq([i \in 1..n |-> Zeros(n)])

Drop(s, k) == AsSeq([i \in 1..(Len(s) - 1) |-> IF i < k THEN s[i] ELSE s[i + 1]])
Minor(A, r, c) ==
    LET rows == Drop(A, r)
    IN  AsSeq([i \in 1..Len(rows) |-> Drop(rows[i], c)])

\* np.linalg.det
RECURSIVE Det(_)
Det(A) ==
    IF Len(A) = 1 THEN A[1][1]
    ELSE VSum(AsSeq([j \in 1..Len(A) |->
                 RMul(IF j % 2 = 1 THEN A[1][j] ELSE RNeg(A[1][j]),
                      Det(Minor(A, 1, j)))]))

Cofactor(A, i, j) ==
    LET m == IF Len(A) = 1 THEN One ELSE Det(Minor(A, i, j))
    IN  IF (i + j) % 2 = 0 THEN m ELSE RNeg(m)

Inverse(A) ==
    LET d == Det(A)
    IN  AsSeq([i \in 1..Len(A) |->
                  AsSeq([j \in 1..Len(A) |-> RDiv(Cofactor(A, j, i), d)])])

Trace(A) == VSum(AsSeq([i \in 1..Len(A) |-> A[i][i]]))
IsDiagonal(A) == \A i, j \in 1..Len(A) : i # j => A[i][j] = Zero


\* ------------------------------------------------------------------------
\* Non-finite values: 1/0 and what follows from it (numpy inf / nan)
\* ------------------------------------------------------------------------
NaN == <<0, 0>>
NaNMat(n) == AsSeq([i \in 1..n |-> AsSeq([j \in 1..n |-> NaN])])
IsFiniteMat(A) == \A i \in 1..Len(A) : \A j \in 1..Len(A[i]) : A[i][j][2] # 0

\* ------------------------------------------------------------------------
\* OSC.__svd_solve and np.linalg.pinv
\* ------------------------------------------------------------------------
\* u, s, v = svd(A); v.T diag(1/s) u.T.  For a nonsingular A this is the
\* inverse of A; a zero singular value is reciprocated to inf and the
\* product is not finite.  svd of a non-finite matrix does not converge
\* (LinAlgError).
SvdSolve(A) ==
    IF ~IsFiniteMat(A) THEN [raised |-> "LinAlgError", val |-> NaNMat(Len(A))]
    ELSE IF Det(A) = Zero THEN [raised |-> "none", val |-> NaNMat(Len(A))]
    ELSE [raised |-> "none", val |-> Inverse(A)]

\* the Moore-Penrose inverse has a closed rational form for one row, for a
\* singular 2x2 matrix (rank 0 or 1) and for a diagonal one
PinvRepresentable(A) ==
    \/ Len(A) = 1
    \/ Len(A) = 2 /\ (Det(A) = Zero \/ IsDiagonal(A))

\* a diagonal entry at or below rcond times the largest one is dropped
Kept(a, largest, rcond) == a # Zero /\ ~RLe(RDiv(a, largest), rcond)

\* np.linalg.pinv(A, rcond) of a symmetric positive semidefinite A with at
\* most two rows: singular values at or below rcond * (largest singular
\* value) are dropped, the others reciprocated.
PinvVal(A, rcond) ==
    IF Len(A) = 1
    THEN IF A[1][1] = Zero THEN A ELSE << <<RDiv(One, A[1][1])>> >>
    ELSE IF A = ZeroMat(2) THEN A
    ELSE IF IsDiagonal(A)
    THEN LET largest == IF RLt(A[1][1], A[2][2]) THEN A[2][2] ELSE A[1][1]
         IN  AsSeq([i \in 1..2 |-> AsSeq([j \in 1..2 |->
                 IF i = j /\ Kept(A[i][i], largest, rcond)
                 THEN RDiv(One, A[i][i]) ELSE Zero])])
    ELSE \* rank one: A / trace(A)^2
         MatScale(RDiv(One, RMul(Trace(A), Trace(A))), A)

Pinv(A, rcond) ==
    IF ~IsFiniteMat(A) THEN [raised |-> "LinAlgError", val |-> NaNMat(Len(A))]
    ELSE [raised |-> "none", val |-> PinvVal(A, rcond)]

\* ------------------------------------------------------------------------
\* OSC.__Mx
\* ------------------------------------------------------------------------
threshold == <<1, 10000>>

\* the test that selects the SVD inverse; a comparison with nan is False
UseSvdStrict(det) == det[2] # 0 /\ RLt(threshold, RAbs(det))
UseSvd(det) == det[2] # 0 /\ RLe(threshold, RAbs(det))

Mx(J, M) ==
    LET Minv == SvdSolve(M)
        Mx_inv == IF IsFiniteMat(Minv.val)
                  THEN MatMul(J, MatMul(Minv.val, Transpose(J)))
                  ELSE NaNMat(Len(J))
        det == IF IsFiniteMat(Mx_inv) THEN Det(Mx_inv) ELSE NaN
        svd == UseSvd(det)
        inv == IF svd THEN SvdSolve(Mx_inv)
               ELSE Pinv(Mx_inv, RMul(threshold, <<1, 10>>))
    IN  [raised |-> IF Minv.raised # "none" THEN Minv.raised ELSE inv.raised,
         path |-> IF Minv.raised # "none" THEN "none"
                  ELSE IF svd THEN "svd" ELSE "pinv",
         det |-> det, Mx |-> inv.val, M_inv |-> Minv.val]

\* ------------------------------------------------------------------------
\* The robot the controller is built for (irl_control.Robot / Device): two
\* devices, three joints.  A device's Jacobian has one row per active task
\* DOF and one column per robot joint.
\* ------------------------------------------------------------------------
None == <<>>
DeviceNames == {"base", "ur5right"}
\* robot.sub_devices_dict, in the robot's own order
sub_devices == <<"base", "ur5right">>
num_joints_total == 3
robot_joint_ids_all == AsSeq([i \in 1..num_joints_total |-> i])

ctrlr_dof_xyz(name) ==
    IF name = "base" THEN <<TRUE, FALSE, FALSE>> ELSE <<FALSE, FALSE, FALSE>>
ctrlr_dof_abg(name) ==
    IF name = "base" THEN <<FALSE, FALSE, FALSE>> ELSE <<FALSE, FALSE, TRUE>>
\* device.ctrlr_dof: the six-entry mask, used as an index (the active axes)
RECURSIVE TrueIdxs(_, _)
TrueIdxs(mask, i) ==
    IF i > Len(mask) THEN <<>>
    ELSE (IF mask[i] THEN <<i>> ELSE <<>>) \o TrueIdxs(mask, i + 1)
ctrlr_dof(name) == TrueIdxs(ctrlr_dof_xyz(name) \o ctrlr_dof_abg(name), 1)
joint_ids_all(name) == IF name = "base" THEN <<1>> ELSE <<2, 3>>
actuator_trnids(name) == IF name = "base" THEN <<1>> ELSE <<2, 3>>
ctrl_idxs(name) == IF name = "base" THEN <<3>> ELSE <<1, 2>>
MaskSum(mask) == Cardinality({i \in 1..Len(mask) : mask[i]})

\* RobotState.J: the index ranges of the devices' rows in the Jacobian of
\* all the robot's devices stacked in the robot's order
RECURSIVE JIdxsFrom(_, _)
JIdxsFrom(name, i) ==
    IF sub_devices[i] = name THEN 0
    ELSE Len(ctrlr_dof(sub_devices[i])) + JIdxsFrom(name, i + 1)
J_idxs(name) ==
    AsSeq([k \in 1..Len(ctrlr_dof(name)) |-> JIdxsFrom(name, 1) + k])

\* ------------------------------------------------------------------------
\* Orientations: rotations about the z axis, a quaternion standing for its
\* angle in radians (transforms3d qmult, qconjugate, normalized_vector,
\* quat2euler on that subgroup, angles within (-pi, pi))
\* ------------------------------------------------------------------------
qmult(a, b) == RAdd(a, b)
qconjugate(a) == RNeg(a)
normalized_vector(a) == a
quat2euler(a) == <<Zero, Zero, a>>

\* ------------------------------------------------------------------------
\* OSC.__limit_vel
\* ------------------------------------------------------------------------
Sub3(u, from) == AsSeq([i \in 1..3 |-> u[from + i]])

\* the sub-vector scaled by the threshold without dividing by its norm
LimitVelNoNorm(u_task, max_vel, cfg) ==
    IF max_vel # None
    THEN LET norm_xyz == Norm(Sub3(u_task, 0))
             sat_gain_xyz == RMul(RDiv(max_vel[1], cfg.kp), cfg.kv)
             norm_abg == Norm(Sub3(u_task, 3))
             sat_gain_abg == RMul(RDiv(max_vel[2], cfg.ko), cfg.kv)
             scale == AsSeq([i \in 1..6 |->
                         IF i <= 3
                         THEN IF RLt(sat_gain_xyz, norm_xyz)
                              THEN sat_gain_xyz ELSE One
                         ELSE IF RLt(sat_gain_abg, norm_abg)
                              THEN sat_gain_abg ELSE One])
         IN  [raised |-> "none",
              val |-> VMul(VScale(cfg.kv, VMul(scale, cfg.lamb)), u_task)]
    ELSE [raised |-> "Exception", val |-> u_task]

LimitVel(u_task, max_vel, cfg) ==
    IF max_vel # None
    THEN LET norm_xyz == Norm(Sub3(u_task, 0))
             sat_gain_xyz == RMul(RDiv(max_vel[1], cfg.kp), cfg.kv)
             scale_xyz == RMul(RDiv(max_vel[1], cfg.kp), cfg.kv)
             norm_abg == Norm(Sub3(u_task, 3))
             sat_gain_abg == RMul(RDiv(max_vel[2], cfg.ko), cfg.kv)
             scale_abg == RMul(RDiv(max_vel[2], cfg.ko), cfg.kv)
             scale == AsSeq([i \in 1..6 |->
                         IF i <= 3
                         THEN IF RLt(sat_gain_xyz, norm_xyz)
                              THEN RDiv(scale_xyz, norm_xyz) ELSE One
                         ELSE IF RLt(sat_gain_abg, norm_abg)
                              THEN RDiv(scale_abg, norm_abg) ELSE One])
         IN  [raised |-> "none",
              val |-> VMul(VScale(cfg.kv, VMul(scale, cfg.lamb)), u_task)]
    ELSE [raised |-> "Exception", val |-> u_task]

\* ------------------------------------------------------------------------
\* OSC.calc_error
\* ------------------------------------------------------------------------
\* target: [xyz, quat, xyz_vel, abg_vel]; ee: [xyz, quat] (the device's
\* EE_XYZ and EE_QUAT states)
calc_error(target, ee, name) ==
    LET xyz == IF MaskSum(ctrlr_dof_xyz(name)) > 0
               THEN VSub(ee.xyz, target.xyz) ELSE Zeros(3)
        abg == IF MaskSum(ctrlr_dof_abg(name)) > 0
               THEN LET q_d == normalized_vector(target.quat)
                        q_r == qmult(q_d, qconjugate(ee.quat))
                    IN  quat2euler(qconjugate(q_r))
               ELSE Zeros(3)
    IN  xyz \o abg

\* ------------------------------------------------------------------------
\* OSC.generate
\* ------------------------------------------------------------------------
\* targets: the target map in iteration order, a sequence of
\*   [name, target]
\* snap: what the robot hands over for this call,
\*   [Js: name -> Jacobian, M, dq, dev: name -> [FORCE, TORQUE],
\*    ee: name -> [xyz, quat], qfrc_bias]
\* ctrl: [device_configs, nullspace_config, use_g, admittance]
\* rob:  [using_sim, running, max_vel: name -> None or <<linear, angular>>]

\* lines 136-138: J stacked in target-map order
RECURSIVE StackJ(_, _, _)
StackJ(targets, Js, i) ==
    IF i > Len(targets) THEN <<>>
    ELSE Js[targets[i].name] \o StackJ(targets, Js, i + 1)

\* np.all(target_vel) == 0: np.all is True when every entry is nonzero
AllNonzero(v) == \A i \in 1..Len(v) : v[i] # Zero
DampingBranch(target_vel) == AllNonzero(target_vel) = FALSE

\* lines 163-168.  The in-place products act on the local u_task; the gain
\* configuration object is returned as it is left.
ShapeInPlaceOnGains(u_task, max_vel, cfg, stiffness) ==
    IF max_vel # None
    THEN LET lim == LimitVel(u_task, max_vel, cfg)
         IN  [raised |-> lim.raised, limited |-> TRUE,
              u_task |-> VMul(lim.val, stiffness), cfg |-> cfg]
    ELSE LET gains == VMul(cfg.task_space_gains, stiffness)
         IN  [raised |-> "none", limited |-> FALSE,
              u_task |-> VMul(u_task, gains),
              cfg |-> [cfg EXCEPT !.task_space_gains = gains]]

ShapeAlwaysLimit(u_task, max_vel, cfg, stiffness) ==
    LET lim == LimitVel(u_task, max_vel, cfg)
    IN  [raised |-> lim.raised, limited |-> TRUE,
         u_task |-> VMul(lim.val, stiffness), cfg |-> cfg]

Shape(u_task, max_vel, cfg, stiffness) ==
    IF max_vel # None
    THEN LET lim == LimitVel(u_task, max_vel, cfg)
         IN  [raised |-> lim.raised, limited |-> TRUE,
              u_task |-> VMul(lim.val, stiffness), cfg |-> cfg]
    ELSE [raised |-> "none", limited |-> FALSE,
          u_task |-> VMul(u_task, VMul(cfg.task_space_gains, stiffness)),
          cfg |-> cfg]

\* u[idxs] = vals / u[idxs] += vals
SetAt(u, idxs, vals) ==
    AsSeq([i \in 1..Len(u) |->
        IF \E k \in 1..Len(idxs) : idxs[k] = i
        THEN vals[CHOOSE k \in 1..Len(idxs) : idxs[k] = i] ELSE u[i]])
AddAt(u, idxs, vals) == SetAt(u, idxs, VAdd(Take(u, idxs), vals))

Abort(acc, what) == [acc EXCEPT !.raised = what]

\* lines 161-181: the rest of the pass once the error is shaped (shaped is
\* what lines 163-168 return)
DeviceStepShaped(acc, name, target, snap, dx, uv_all, u_task0, shaped) ==
    LET configs == [acc.device_configs EXCEPT ![name] = shaped.cfg]
        cfg == shaped.cfg
        damping == cfg.d \o <<One, One, One>>
        target_vel == target.xyz_vel \o target.abg_vel
        damp == DampingBranch(target_vel)
        rows == J_idxs(name)
        dof == ctrlr_dof(name)
    IN
    IF shaped.raised # "none"
    THEN Abort([acc EXCEPT !.device_configs = configs], shaped.raised)
    ELSE IF ~damp /\ \E k \in 1..Len(rows) : rows[k] > Len(dx)
    THEN Abort([acc EXCEPT !.device_configs = configs], "IndexError")
    ELSE IF name \notin DOMAIN snap.dev
    THEN Abort([acc EXCEPT !.device_configs = configs], "KeyError")
    ELSE
    LET measured == IF damp THEN <<>> ELSE Take(dx, rows)
        u_task == IF damp THEN shaped.u_task
                  ELSE AddAt(shaped.u_task, dof,
                             VMul(VScale(cfg.kv, VSub(measured, Take(target_vel, dof))),
                                  Take(damping, dof)))
        cmd == Take(u_task, dof)
    IN  [acc EXCEPT
           !.device_configs = configs,
           !.u_all = IF damp
                     THEN SetAt(@, joint_ids_all(name),
                                VScale(RNeg(cfg.kv), Take(uv_all, joint_ids_all(name))))
                     ELSE @,
           !.ext_f = @ \o Take(snap.dev[name].FORCE \o snap.dev[name].TORQUE, dof),
           !.u_task_all = @ \o cmd,
           !.log = Append(@, [name |-> name, err |-> u_task0,
                              limited |-> shaped.limited, damped |-> damp,
                              measured |-> measured, cmd |-> cmd])]

\* lines 156-168: one pass of the loop over targets.items(), up to the shaped
\* error
DeviceStepError(acc, name, target, rob, snap, dx, uv_all, u_task0) ==
    IF name \notin DOMAIN acc.device_configs THEN Abort(acc, "KeyError")
    ELSE DeviceStepShaped(acc, name, target, snap, dx, uv_all, u_task0,
             Shape(u_task0, rob.max_vel[name], acc.device_configs[name],
                   acc.device_configs[name].k \o <<One, One, One>>))

\* lines 156-181: one pass of the loop over targets.items()
DeviceStep(acc, name, target, rob, snap, dx, uv_all) ==
    DeviceStepError(acc, name, target, rob, snap, dx, uv_all,
                    calc_error(target, snap.ee[name], name))

\* lines 156-181: the loop over targets.items()
RECURSIVE DeviceLoop(_, _, _, _, _, _, _)
DeviceLoop(acc, targets, i, rob, snap, dx, uv_all) ==
    IF i > Len(targets) \/ acc.raised # "none" THEN acc
    ELSE DeviceLoop(DeviceStep(acc, targets[i].name, targets[i].target,
                               rob, snap, dx, uv_all),
                    targets, i + 1, rob, snap, dx, uv_all)

\* lines 203-208: per targeted device, in target-map order
SliceAllDevices(targets, u_all) ==
    [force_idxs |-> AsSeq([i \in 1..Len(sub_devices) |-> ctrl_idxs(sub_devices[i])]),
     forces |-> AsSeq([i \in 1..Len(sub_devices) |->
                    Take(u_all, actuator_trnids(sub_devices[i]))])]

Slice(targets, u_all) ==
    [force_idxs |-> AsSeq([i \in 1..Len(targets) |-> ctrl_idxs(targets[i].name)]),
     forces |-> AsSeq([i \in 1..Len(targets) |->
                    Take(u_all, actuator_trnids(targets[i].name))])]

\* the running check made whatever the simulation mode
StreamingCheckIgnoresSim(rob) == rob.running

\* lines 129-130
StreamingCheckPasses(rob) == ~(rob.using_sim = FALSE) \/ rob.running

NoOutput(status, read, ctrl) ==
    [status |-> status, state_read |-> read, force_idxs |-> <<>>,
     forces |-> <<>>, u_all |-> <<>>, J |-> <<>>, dx |-> <<>>, log |-> <<>>,
     device_configs |-> ctrl.device_configs]

\* lines 184-200: the task command projected to joint space, gravity
\* compensation and the nullspace term
JointForces(ctrl, snap, J, mx, u_all, u_task_all, ext_f) ==
    LET task == IF ctrl.admittance = TRUE THEN VAdd(u_task_all, ext_f) ELSE u_task_all
        u1 == VSub(u_all, MatVec(Transpose(J), MatVec(mx.Mx, task)))
        u2 == IF ctrl.use_g
              THEN VAdd(u1, Take(snap.qfrc_bias, robot_joint_ids_all)) ELSE u1
    IN  IF ctrl.nullspace_config # None
        THEN LET damp_kv == ctrl.nullspace_config.kv
                 u_null == MatVec(snap.M, VScale(RNeg(damp_kv), snap.dq))
                 Jbar == MatMul(mx.M_inv, MatMul(Transpose(J), mx.Mx))
                 null_filter == MatSub(Eye(num_joints_total),
                                       MatMul(Transpose(J), Transpose(Jbar)))
             IN  VAdd(u2, MatVec(null_filter, u_null))
        ELSE u2

\* lines 203-210: what generate returns for the joint forces u_all
Output(targets, J, dx, acc, u_all, out) ==
    [status |-> "ok", state_read |-> TRUE,
     force_idxs |-> out.force_idxs, forces |-> out.forces,
     u_all |-> u_all, J |-> J, dx |-> dx, log |-> acc.log,
     device_configs |-> acc.device_configs]

\* lines 184-210, after the loop over the targets has left acc
AfterLoop(ctrl, targets, snap, J, dx, mx, acc, u_all) ==
    IF acc.raised # "none"
    THEN [NoOutput(acc.raised, TRUE, ctrl) EXCEPT
             !.device_configs = acc.device_configs, !.log = acc.log]
    ELSE Output(targets, J, dx, acc, u_all, Slice(targets, u_all))

\* lines 150-210, with the task-space inertia mx of line 144
Control(ctrl, rob, targets, snap, J, mx, dx, acc) ==
    IF mx.raised # "none" THEN NoOutput(mx.raised, TRUE, ctrl)
    ELSE AfterLoop(ctrl, targets, snap, J, dx, mx, acc,
                   JointForces(ctrl, snap, J, mx, acc.u_all, acc.u_task_all,
                               acc.ext_f))

\* lines 136-210, with the stacked Jacobian J
Stacked(ctrl, rob, targets, snap, J, dx) ==
    Control(ctrl, rob, targets, snap, J, Mx(J, snap.M), dx,
            DeviceLoop([raised |-> "none", u_all |-> Zeros(num_joints_total),
                        u_task_all |-> <<>>, ext_f |-> <<>>, log |-> <<>>,
                        device_configs |-> ctrl.device_configs],
                       targets, 1, rob, snap, dx, MatVec(snap.M, snap.dq)))

\* generate passing over the targeted devices without a Jacobian, a gain
\* configuration or a state entry, and commanding the remaining ones
GenerateSkipping(ctrl, rob, targets, snap) ==
    LET kept == SelectSeq(targets, LAMBDA t : /\ t.name \in DOMAIN snap.Js
                                              /\ t.name \in DOMAIN ctrl.device_configs
                                              /\ t.name \in DOMAIN snap.dev)
    IN  IF ~StreamingCheckPasses(rob)
        THEN NoOutput("AssertionError", FALSE, ctrl)
        ELSE IF kept = <<>> THEN NoOutput("ValueError", TRUE, ctrl)
        ELSE Stacked(ctrl, rob, kept, snap, StackJ(kept, snap.Js, 1),
                     MatVec(StackJ(kept, snap.Js, 1), snap.dq))

Generate(ctrl, rob, targets, snap) ==
    IF ~StreamingCheckPasses(rob)
    THEN NoOutput("AssertionError", FALSE, ctrl)
    ELSE IF \E i \in 1..Len(targets) : targets[i].name \notin DOMAIN snap.Js
    THEN NoOutput("KeyError", TRUE, ctrl)
    ELSE IF targets = <<>> THEN NoOutput("ValueError", TRUE, ctrl)
    ELSE Stacked(ctrl, rob, targets, snap, StackJ(targets, snap.Js, 1),
                 MatVec(StackJ(targets, snap.Js, 1), snap.dq))

\* ------------------------------------------------------------------------
\* State
\* ------------------------------------------------------------------------
VARIABLES
    device_configs,    \* OSC.device_configs: name -> ControllerConfig
    nullspace_config,  \* OSC.nullspace_config (None or [kv])
    use_g,             \* OSC.use_g
    admittance,        \* OSC.admittance
    rob,               \* the robot: [using_sim, running, max_vel]
    call,              \* the last generate call: its inputs and what it did
    mxio,              \* an application of __Mx (specification SpecMx)
    limio              \* applications of __limit_vel (specification SpecLimit)

vars == <<device_configs, nullspace_config, use_g, admittance, rob, call,
          mxio, limio>>

Idle == [phase |-> "idle"]

\* ------------------------------------------------------------------------
\* Bounds and input sets
\* ------------------------------------------------------------------------
MaxVel == 1

\* controller configurations (the yaml's osc0 and osc2 entries)
osc0 == [kv |-> R(2), kp |-> R(4), ko |-> R(2),
         k |-> <<R(2), One, One>>, d |-> <<R(3), One, One>>]
osc2 == [kv |-> R(2), kp |-> R(2), ko |-> R(4),
         k |-> <<R(2), One, One>>, d |-> <<R(3), One, One>>]
nullspace == [kv |-> R(1)]
DeviceConfigOf(name) == IF name = "base" THEN osc0 ELSE osc2

\* OSC.__init__, lines 35-39
ControllerConfig(dcnf) ==
    LET task_space_gains == <<dcnf.kp, dcnf.kp, dcnf.kp, dcnf.ko, dcnf.ko, dcnf.ko>>
    IN  [kv |-> dcnf.kv, kp |-> dcnf.kp, ko |-> dcnf.ko, k |-> dcnf.k, d |-> dcnf.d,
         task_space_gains |-> task_space_gains,
         lamb |-> AsSeq([i \in 1..6 |-> RDiv(task_space_gains[i], dcnf.kv)])]

\* constructor arguments: (nullspace_config, use_g, admittance)
CtorFlags == {<<nullspace, TRUE, FALSE>>, <<None, FALSE, TRUE>>}
ConfiguredSets == {DeviceNames, {"base"}}
\* the devices' velocity limits (None: no limit configured)
limit == <<R(8), R(1)>>
MaxVelMaps ==
    {[n \in DeviceNames |-> None], [n \in DeviceNames |-> limit],
     [n \in DeviceNames |-> IF n = "base" THEN limit ELSE None]}

Poses ==
    {[xyz |-> <<R(-3), Zero, Zero>>, quat |-> Zero],
     [xyz |-> <<R(-3), R(-4), Zero>>, quat |-> One]}
TargetVels ==
    {Zeros(6), AsSeq([i \in 1..6 |-> IF i = 1 THEN One ELSE Zero])} \cup
    {AsSeq([i \in 1..6 |-> R(v)]) : v \in 1..MaxVel}
Targets ==
    {[xyz |-> p.xyz, quat |-> p.quat, xyz_vel |-> Sub3(v, 0), abg_vel |-> Sub3(v, 3)] :
        p \in Poses, v \in TargetVels}

\* target maps: device names without repetition, in any order
TargetMaps ==
    {<<>>} \cup
    {<<[name |-> n, target |-> t]>> : n \in DeviceNames, t \in Targets} \cup
    {m \in {<<[name |-> n1, target |-> t1], [name |-> n2, target |-> t2]>> :
                n1 \in DeviceNames, n2 \in DeviceNames,
                t1 \in Targets, t2 \in Targets} : m[1].name # m[2].name}

MassMatrix == << <<R(2), One, Zero>>, <<One, R(2), Zero>>, <<Zero, Zero, One>> >>
Wrench == [FORCE |-> <<One, Zero, Zero>>, TORQUE |-> <<Zero, Zero, One>>]
Pose == [xyz |-> Zeros(3), quat |-> Zero]
Snapshot(arm_J, with_J, with_state) ==
    [Js |-> [n \in with_J |-> IF n = "base" THEN << <<One, Zero, Zero>> >> ELSE arm_J],
     M |-> MassMatrix, dq |-> <<One, R(2), R(3)>>,
     dev |-> [n \in with_state |-> Wrench],
     ee |-> [n \in DeviceNames |-> Pose],
     qfrc_bias |-> <<One, One, One>>]
\* complete snapshots (the second with dependent Jacobian rows), one without
\* a Jacobian and one without a device state for ur5right
Snapshots ==
    {Snapshot(<< <<Zero, One, One>> >>, DeviceNames, DeviceNames),
     Snapshot(<< <<R(2), Zero, Zero>> >>, DeviceNames, DeviceNames),
     Snapshot(<< <<Zero, One, One>> >>, {"base"}, DeviceNames),
     Snapshot(<< <<Zero, One, One>> >>, DeviceNames, {"base"})}

\* ------------------------------------------------------------------------
\* Specification of the controller
\* ------------------------------------------------------------------------
Ctrl == [device_configs |-> device_configs, nullspace_config |-> nullspace_config,
         use_g |-> use_g, admittance |-> admittance]

Init ==
    /\ \E names \in ConfiguredSets :
          device_configs = [n \in names |-> ControllerConfig(DeviceConfigOf(n))]
    /\ \E f \in CtorFlags :
          /\ nullspace_config = f[1]
          /\ use_g = f[2]
          /\ admittance = f[3]
    /\ \E sim \in BOOLEAN, mv \in MaxVelMaps :
          rob = [using_sim |-> sim, running |-> FALSE, max_vel |-> mv]
    /\ call = Idle
    /\ mxio = Idle
    /\ limio = Idle

\* robot.start (gain_test.py line 41), before the control loop
Start ==
    /\ call.phase = "idle"
    /\ ~rob.running
    /\ rob' = [rob EXCEPT !.running = TRUE]
    /\ UNCHANGED <<device_configs, nullspace_config, use_g, admittance, call,
                   mxio, limio>>

\* robot.stop (gain_test.py line 174), after the control loop
Stop ==
    /\ call.phase = "idle"
    /\ rob.running
    /\ rob' = [rob EXCEPT !.running = FALSE]
    /\ UNCHANGED <<device_configs, nullspace_config, use_g, admittance, call,
                   mxio, limio>>

Returned(targets, snap) ==
    LET res == Generate(Ctrl, rob, targets, snap)
    IN  /\ call' = [phase |-> "returned", targets |-> targets, snap |-> snap,
                    res |-> res]
        /\ device_configs' = res.device_configs
        /\ UNCHANGED <<nullspace_config, use_g, admittance, rob, mxio, limio>>

\* controller.generate(targets) (gain_test.py line 143)
CallGenerate ==
    /\ call.phase = "idle"
    /\ \E targets \in TargetMaps, snap \in Snapshots : Returned(targets, snap)

\* the next tick calls generate with the same targets on the same snapshot
CallAgain ==
    /\ call.phase = "returned"
    /\ Returned(call.targets, call.snap)

\* the caller writes the forces to the simulator (gain_test.py lines 146-147)
ApplyForces ==
    /\ call.phase = "returned"
    /\ call' = Idle
    /\ UNCHANGED <<device_configs, nullspace_config, use_g, admittance, rob,
                   mxio, limio>>

Next == Start \/ Stop \/ CallGenerate \/ CallAgain \/ ApplyForces

Spec == Init /\ [][Next]_vars

\* ------------------------------------------------------------------------
\* Specification of the task-space inertia inverter (OSC.__Mx) on its own
\* ------------------------------------------------------------------------
MaxNum == 2
MaxMass == 2

\* Jacobian entries 0, 1/100 .. MaxNum/100, 1/10 and 1
JEntries == {<<k, 100>> : k \in 1..MaxNum} \cup {Zero, <<1, 10>>, One}
JEntriesNorm == {Rat(e[1], e[2]) : e \in JEntries}
\* one task row over two joints, or two task rows each moving its own joint
MxJacobians ==
    {<< <<a, b>> >> : a \in JEntriesNorm, b \in JEntriesNorm} \cup
    {<< <<a, Zero>>, <<Zero, b>> >> : a \in JEntriesNorm, b \in JEntriesNorm}
\* mass matrices: symmetric positive definite
MxMasses ==
    {<< <<R(a), Zero>>, <<Zero, R(b)>> >> : a \in 1..MaxMass, b \in 1..MaxMass}

ControllerAtRest ==
    /\ device_configs = [n \in DeviceNames |-> ControllerConfig(DeviceConfigOf(n))]
    /\ nullspace_config = None
    /\ use_g = TRUE
    /\ admittance = FALSE
    /\ rob = [using_sim |-> TRUE, running |-> FALSE,
              max_vel |-> [n \in DeviceNames |-> None]]
    /\ call = Idle

InitMx ==
    /\ ControllerAtRest
    /\ limio = Idle
    /\ \E J \in MxJacobians, M \in MxMasses :
          mxio = [phase |-> "input", J |-> J, M |-> M]

ApplyMx ==
    /\ mxio.phase = "input"
    /\ mxio' = [phase |-> "done", J |-> mxio.J, M |-> mxio.M,
                out |-> Mx(mxio.J, mxio.M)]
    /\ UNCHANGED <<device_configs, nullspace_config, use_g, admittance, rob,
                   call, limio>>

NextMx == ApplyMx

SpecMx == InitMx /\ [][NextMx]_vars

\* ------------------------------------------------------------------------
\* Specification of the velocity limiter (OSC.__limit_vel) applied twice
\* ------------------------------------------------------------------------
MaxScale == 2

LimGains ==
    {ControllerConfig([kv |-> R(2), kp |-> kp, ko |-> ko,
                       k |-> <<One, One, One>>, d |-> <<One, One, One>>]) :
        kp \in {<<1, 2>>, One, R(4)}, ko \in {<<1, 2>>, R(2)}}
LimXYZ == {Zeros(3)} \cup
          UNION {{<<R(3 * c), Zero, Zero>>, <<R(3 * c), R(-4 * c), Zero>>} :
                    c \in 1..MaxScale}
LimABG == {Zeros(3)} \cup
          UNION {{<<Zero, Zero, R(c)>>, <<Zero, R(4 * c), R(3 * c)>>} :
                    c \in 1..MaxScale}

InitLimit ==
    /\ ControllerAtRest
    /\ mxio = Idle
    /\ \E cfg \in LimGains, xyz \in LimXYZ, abg \in LimABG :
          limio = [phase |-> "input", cfg |-> cfg, max_vel |-> <<One, One>>,
                   u_task |-> xyz \o abg]

LimitOnce ==
    /\ limio.phase = "input"
    /\ LET r == LimitVel(limio.u_task, limio.max_vel, limio.cfg)
       IN  limio' = [phase |-> "once", cfg |-> limio.cfg, max_vel |-> limio.max_vel,
                     u_task |-> limio.u_task, once |-> r.val]
    /\ UNCHANGED <<device_configs, nullspace_config, use_g, admittance, rob,
                   call, mxio>>

LimitTwice ==
    /\ limio.phase = "once"
    /\ LET r == LimitVel(limio.once, limio.max_vel, limio.cfg)
       IN  limio' = [phase |-> "twice", cfg |-> limio.cfg, max_vel |-> limio.max_vel,
                     u_task |-> limio.u_task, once |-> limio.once,
                     twice |-> r.val]
    /\ UNCHANGED <<device_configs, nullspace_config, use_g, admittance, rob,
                   call, mxio>>

NextLimit == LimitOnce \/ LimitTwice

SpecLimit == InitLimit /\ [][NextLimit]_vars

\* ------------------------------------------------------------------------
\* Properties
\* ------------------------------------------------------------------------
Returned0 == call.phase = "returned"
Ok == Returned0 /\ call.res.status = "ok"
TargetNames == {call.targets[i].name : i \in 1..Len(call.targets)}
AllZero(v) == \A i \in 1..Len(v) : v[i] = Zero
VelOf(target) == target.xyz_vel \o target.abg_vel

\* C1: a successful generate returns one index entry and one force entry per
\* targeted device, in target-map order: the i-th index entry is that
\* device's ctrl_idxs, the i-th force entry the final joint torques at its
\* actuator_trnids; no other device appears.
C1_OutputPerTargetInOrder ==
    Ok =>
      /\ Len(call.res.force_idxs) = Len(call.targets)
      /\ Len(call.res.forces) = Len(call.targets)
      /\ \A i \in 1..Len(call.targets) :
            /\ call.res.force_idxs[i] = ctrl_idxs(call.targets[i].name)
            /\ call.res.forces[i] =
                  Take(call.res.u_all, actuator_trnids(call.targets[i].name))
      /\ \A n \in DeviceNames \ TargetNames :
            \A i \in 1..Len(call.res.force_idxs) :
                call.res.force_idxs[i] # ctrl_idxs(n)

\* a subset of the devices, and the two devices against the robot's order
C1_Witness ==
    /\ Ok
    /\ Len(call.targets) = 2
    /\ call.targets[1].name = "ur5right"
    /\ call.res.force_idxs = <<ctrl_idxs("ur5right"), ctrl_idxs("base")>>
    /\ call.res.forces[1] # call.res.forces[2]

\* C2: the joint-space damping term is written for a targeted device exactly
\* when all six components of its target velocity are zero; otherwise the
\* velocity-tracking term is used.
C2_DampingIffAllZero ==
    Returned0 =>
      \A i \in 1..Len(call.res.log) :
          call.res.log[i].damped <=> AllZero(VelOf(call.targets[i].target))

\* C3: generate aborts on the running check, before the robot state is read
\* and without commands, exactly when the robot is neither in simulation
\* mode nor running.
C3_StreamingCheck ==
    Returned0 =>
      /\ call.res.status = "AssertionError"
            <=> (rob.using_sim = FALSE /\ ~rob.running)
      /\ call.res.status = "AssertionError" =>
            /\ ~call.res.state_read
            /\ call.res.force_idxs = <<>>
            /\ call.res.forces = <<>>
      /\ call.res.status # "AssertionError" => call.res.state_read

C3_Witness ==
    /\ Returned0
    /\ call.res.status = "AssertionError"
    /\ call.targets # <<>>

\* C4: a targeted device without a Jacobian entry, a state entry or a gain
\* configuration makes generate abort with no force/index lists; the device
\* is never skipped.
Missing(n, snap) ==
    \/ n \notin DOMAIN snap.Js
    \/ n \notin DOMAIN snap.dev
    \/ n \notin DOMAIN device_configs
C4_MissingDeviceAborts ==
    (Returned0 /\ \E n \in TargetNames : Missing(n, call.snap)) =>
      /\ call.res.status # "ok"
      /\ call.res.force_idxs = <<>>
      /\ call.res.forces = <<>>

\* the first device is complete and was processed, the second is missing
C4_Witness ==
    /\ Returned0
    /\ Len(call.targets) = 2
    /\ ~Missing(call.targets[1].name, call.snap)
    /\ Missing(call.targets[2].name, call.snap)
    /\ Len(call.res.log) = 1
    /\ call.res.status = "KeyError"

\* C5: generate leaves the gain configuration, the nullspace configuration
\* and the flags as they are, and a call repeated with the same targets on
\* the same snapshot returns the same output.
C5_GenerateReadOnly ==
    [][/\ device_configs' = device_configs
       /\ nullspace_config' = nullspace_config
       /\ use_g' = use_g
       /\ admittance' = admittance
       /\ (call.phase = "returned" /\ call'.phase = "returned")
             => call'.res = call.res]_vars

\* a call that took the static-gain branch with a stiffness other than one
C5_Witness ==
    /\ Ok
    /\ \E i \in 1..Len(call.res.log) :
          /\ ~call.res.log[i].limited
          /\ device_configs[call.res.log[i].name].k[1] # One
          /\ ~AllZero(call.res.log[i].cmd)

\* C7: the limiter is invoked for a device exactly when the device has a
\* velocity limit; a device without one is shaped by task_space_gains times
\* stiffness, and the limiter's missing-limit error never comes out of
\* generate.
C7_LimiterIffMaxVel ==
    Returned0 =>
      /\ call.res.status # "Exception"
      /\ \A i \in 1..Len(call.res.log) :
            LET e == call.res.log[i]
                cfg == device_configs[e.name]
            IN  /\ e.limited <=> rob.max_vel[e.name] # None
                /\ (~e.limited /\ e.damped) =>
                      e.cmd = Take(VMul(e.err, VMul(cfg.task_space_gains,
                                                    cfg.k \o <<One, One, One>>)),
                                   ctrlr_dof(e.name))

\* one device through the limiter and one through the static gains
C7_Witness ==
    /\ Ok
    /\ \E i, j \in 1..Len(call.res.log) :
          /\ call.res.log[i].limited
          /\ ~call.res.log[j].limited
          /\ ~AllZero(call.res.log[j].cmd)

\* C8: axes not selected by a device's DOF masks are zero in the error from
\* calc_error, and the pose along an unselected axis changes neither the
\* error nor the shaped command of the selected axes, also through the
\* limiter.
Unselected(n) == {i \in 1..6 : \A k \in 1..Len(ctrlr_dof(n)) : ctrlr_dof(n)[k] # i}
\* the two targets agree on the axes the device selects
SameOnSelected(n, t1, t2) ==
    /\ \A i \in 1..3 : ctrlr_dof_xyz(n)[i] => t1.xyz[i] = t2.xyz[i]
    /\ MaskSum(ctrlr_dof_abg(n)) > 0 => t1.quat = t2.quat
    /\ VelOf(t1) = VelOf(t2)
ShapedSelected(n, target) ==
    LET cfg == device_configs[n]
    IN  Take(Shape(calc_error(target, call.snap.ee[n], n), rob.max_vel[n], cfg,
                   cfg.k \o <<One, One, One>>).u_task,
             ctrlr_dof(n))
C8_UnselectedAxesInert ==
    Returned0 =>
      \A i \in 1..Len(call.res.log) :
          LET e == call.res.log[i]
          IN  /\ \A a \in Unselected(e.name) : e.err[a] = Zero
              /\ \A t2 \in Targets :
                    SameOnSelected(e.name, call.targets[i].target, t2) =>
                       ShapedSelected(e.name, t2)
                          = ShapedSelected(e.name, call.targets[i].target)

\* C9: for any subset of the devices in any order, the measured task-space
\* velocity of a device's velocity-tracking term is that device's own
\* Jacobian rows times dq.
C9_MeasuredVelocityIsOwnRows ==
    Returned0 =>
      /\ call.res.status # "IndexError"
      /\ \A i \in 1..Len(call.res.log) :
            LET e == call.res.log[i]
            IN  ~e.damped => e.measured = MatVec(call.snap.Js[e.name], call.snap.dq)

\* ------------------------------------------------------------------------
\* Properties of the limiter applied twice (SpecLimit)
\* ------------------------------------------------------------------------
SatXYZ == RLt(RMul(RDiv(limio.max_vel[1], limio.cfg.kp), limio.cfg.kv),
              Norm(Sub3(limio.u_task, 0)))
SatABG == RLt(RMul(RDiv(limio.max_vel[2], limio.cfg.ko), limio.cfg.kv),
              Norm(Sub3(limio.u_task, 3)))

\* C6 as stated: a command with a saturated translation or orientation
\* sub-vector is limited to the same 6-vector by one and by two applications
\* of the limiter.
C6_IdempotentWhenSaturated ==
    (limio.phase = "twice" /\ (SatXYZ \/ SatABG)) => limio.twice = limio.once

\* C6 amended: a sub-vector that the limiter saturated, and whose gain (kp
\* for the translation, ko for the orientation) is greater than one, is the
\* same after two applications of the limiter as after one.
C6_SaturatedSubvectorFixed ==
    limio.phase = "twice" =>
      /\ (SatXYZ /\ RLt(One, limio.cfg.kp)) =>
            Sub3(limio.twice, 0) = Sub3(limio.once, 0)
      /\ (SatABG /\ RLt(One, limio.cfg.ko)) =>
            Sub3(limio.twice, 3) = Sub3(limio.once, 3)

\* translation saturated and fixed by the second application, orientation
\* not saturated and scaled again
C6_Witness ==
    /\ limio.phase = "twice"
    /\ SatXYZ
    /\ RLt(One, limio.cfg.kp)
    /\ Sub3(limio.once, 0) # VScale(limio.cfg.kp, Sub3(limio.u_task, 0))
    /\ Sub3(limio.twice, 0) = Sub3(limio.once, 0)
    /\ ~SatABG
    /\ Sub3(limio.twice, 3) # Sub3(limio.once, 3)

\* ------------------------------------------------------------------------
\* Properties of the task-space inertia inverter (SpecMx)
\* ------------------------------------------------------------------------
MxInvOf(J, M) == MatMul(J, MatMul(Inverse(M), Transpose(J)))

\* C10: the pseudo-inverse path is taken exactly when |det(J M_inv Jt)| is
\* below 1e-4 and the SVD path exactly when it is at or above 1e-4; either
\* way no error is raised, and M_inv is the inverse of M.
C10_PathByDeterminant ==
    mxio.phase = "done" =>
      LET det == RAbs(Det(MxInvOf(mxio.J, mxio.M)))
      IN  /\ mxio.out.path = "pinv" <=> RLt(det, <<1, 10000>>)
          /\ mxio.out.path = "svd" <=> RLe(<<1, 10000>>, det)
          /\ mxio.out.raised = "none"
          /\ IsFiniteMat(mxio.out.Mx)
          /\ MatMul(mxio.out.M_inv, mxio.M) = Eye(Len(mxio.M))

\* the determinant exactly at the threshold
C10_Witness ==
    /\ mxio.phase = "done"
    /\ Det(MxInvOf(mxio.J, mxio.M)) = <<1, 10000>>
    /\ mxio.out.path = "svd"
    /\ Len(mxio.J) = 2

\* the pseudo-inverse is only taken of matrices it is computed exactly for
PinvExact ==
    /\ mxio.phase = "done" => PinvRepresentable(MxInvOf(mxio.J, mxio.M))
    /\ Ok => (Len(call.res.J) <= 2)

====
